---- MODULE Spec2Model ----
(***************************************************************************)
(* Model of the three hrgls example scripts of ReliaSolve/Hourglass:       *)
(*   examples/datablobsource.py       (pc values "D<line>")                *)
(*   examples/print_log_messages.py   (pc values "P<line>")                *)
(*   examples/list_datablobsources.py (pc values "L<line>")                *)
(* The main thread of a script is a program counter over its source lines. *)
(* The hrgls SDK is external: every SDK call returns a status chosen       *)
(* nondeterministically, and the SDK thread may invoke the registered      *)
(* callback whenever a handler is installed and streaming is on.           *)
(***************************************************************************)
EXTENDS Integers, Sequences, FiniteSets, TLC

\* ---------------------------------------------------------------- bounds
\* Most callback invocations the SDK thread makes in one run.
MaxCallbacks == 12
\* Most HandleLogCallback invocations the SDK thread makes in one run.
MaxLogCallbacks == 6
\* Longest list GetPendingLogMessages returns in one call.
MaxBatch == 2
\* Most sources GetAvailableDataBlobSources returns.
MaxSources == 2

\* ------------------------------------------------------- program constants
\* datablobsource.py:13  callback count at which timeToQuit[0] is set
BlobQuitCount == 10
\* datablobsource.py:82  while (count <= 10)
BlobGetLimit == 10
\* print_log_messages.py:48 and :85  five messages wanted
LogWanted == 5
\* print_log_messages.py:50 and :103  seconds before giving up
LogTimeoutSecs == 5
\* hrgls.hrgls_MESSAGE_MINIMUM_WARNING, the filter level (print_log_messages.py:71)
MinWarning == 2

OKAY == "OKAY"
TIMEOUT == "TIMEOUT"
ERROR == "ERROR"
\* hrgls status values: success sentinel, timeout sentinel, any other failure
Status == {OKAY, TIMEOUT, ERROR}
\* message levels the SDK can deliver: below, at and above the warning level
Levels == {MinWarning - 1, MinWarning, MinWarning + 1}

Scripts == {"datablobsource", "print_log_messages", "list_datablobsources"}

VARIABLES
  script,       \* which example script this run executes
  pc,           \* main thread position, "exited" after sys.exit, "Success" / "Ended" at the end
  status,       \* the script's variable `status` (`s` in list_datablobsources.py)
  callStatus,   \* status left by the last SDK call of the main thread
  unchecked,    \* TRUE from a status-changing SDK call until the script compares its status
  exitCode,     \* argument of sys.exit, -1 while running, 0 at normal end
  failSite,     \* pc of the check that called sys.exit
  reported,     \* the status handed to hrgls_ErrorMessage in the failure print
  badSeen,      \* some observed status was neither success nor (get loop) timeout
  done,         \* done[0]
  cbCount,      \* HandleBlobCallback.count / HandleLogCallback.count
  cbpc,         \* callback position on the SDK thread, "idle" between invocations
  cbBlob,       \* blob handed to the running / last callback
  cbBlobStatus, \* status of that blob after ReleaseData
  handler,      \* SDK state: a callback handler is installed
  streaming,    \* SDK state: streaming is on
  minLevel,     \* SDK state: minimum log level filter (0 = none)
  count,        \* main thread variable `count`
  mainBlob,     \* blob returned by the last GetNextBlob
  clock,        \* api.GetCurrentSystemTime().tv_sec
  start,        \* start.tv_sec
  now,          \* now.tv_sec
  end,          \* end.tv_sec
  messages,     \* levels of the messages not yet visited by the for loop
  printedGet,   \* level of the last 'Get-based message' printed, 0 if none
  lowReturned,  \* GetPendingLogMessages returned a message below MinWarning
  dbs           \* entries of dbs not yet printed

vars == <<script, pc, status, callStatus, unchecked, exitCode, failSite, reported,
          badSeen, done, cbCount, cbpc, cbBlob, cbBlobStatus, handler, streaming,
          minLevel, count, mainBlob, clock, start, now, end, messages, printedGet,
          lowReturned, dbs>>

\* groups used in UNCHANGED
exitVars == <<exitCode, failSite, reported>>
cbVars == <<done, cbCount, cbpc, cbBlob, cbBlobStatus>>
sdkVars == <<handler, streaming, minLevel>>
timeVars == <<clock, start, now, end>>
logVars == <<messages, printedGet, lowReturned>>

\* first line of each script
FirstPc(s) ==
  CASE s = "datablobsource" -> "D25"
    [] s = "print_log_messages" -> "P18"
    [] s = "list_datablobsources" -> "L5"

Init ==
  /\ script \in Scripts
  /\ pc = FirstPc(script)
  /\ status = OKAY
  /\ callStatus = OKAY
  /\ unchecked = FALSE
  /\ exitCode = -1
  /\ failSite = "none"
  /\ reported = "none"
  /\ badSeen = FALSE
  /\ done = FALSE
  /\ cbCount = 0
  /\ cbpc = "idle"
  /\ cbBlob = "none"
  /\ cbBlobStatus = OKAY
  /\ handler = FALSE
  /\ streaming = FALSE
  /\ minLevel = 0
  /\ count = 0
  /\ mainBlob = "none"
  /\ clock = 0
  /\ start = 0
  /\ now = 0
  /\ end = 0
  /\ messages = <<>>
  /\ printedGet = 0
  /\ lowReturned = FALSE
  /\ dbs = 0

\* ------------------------------------------------------------ exit codes
ExitCodeAt_DupStreamOff(site) ==
  CASE site = "D26" -> 1   [] site = "D33" -> 7   [] site = "D38" -> 9
    [] site = "D53" -> 11  [] site = "D58" -> 12  [] site = "D67" -> 12
    [] site = "D70" -> 14  [] site = "D78" -> 15  [] site = "D98" -> 17
    [] site = "D84" -> 18  [] site = "D108" -> 19
    [] site = "P19" -> 1   [] site = "P34" -> 2   [] site = "P41" -> 3
    [] site = "P50" -> 4   [] site = "P56" -> 5   [] site = "P61" -> 6
    [] site = "P72" -> 100 [] site = "P79" -> 7   [] site = "P87" -> 8
    [] site = "P92" -> 101 [] site = "P103" -> 9  [] site = "P109" -> 10
    [] site = "L6" -> 1

\* the argument of sys.exit at each failure site (site = pc of the check)
ExitCodeAt(site) ==
  CASE site = "D26" -> 1   [] site = "D33" -> 7   [] site = "D38" -> 9
    [] site = "D53" -> 11  [] site = "D58" -> 12  [] site = "D67" -> 13
    [] site = "D70" -> 14  [] site = "D78" -> 15  [] site = "D98" -> 17
    [] site = "D84" -> 18  [] site = "D108" -> 19
    [] site = "P19" -> 1   [] site = "P34" -> 2   [] site = "P41" -> 3
    [] site = "P50" -> 4   [] site = "P56" -> 5   [] site = "P61" -> 6
    [] site = "P72" -> 100 [] site = "P79" -> 7   [] site = "P87" -> 8
    [] site = "P92" -> 101 [] site = "P103" -> 9  [] site = "P109" -> 10
    [] site = "L6" -> 1

\* the failure sites of each script
FailSites(s) ==
  CASE s = "datablobsource" ->
         {"D26", "D33", "D38", "D53", "D58", "D67", "D70", "D78", "D98", "D84", "D108"}
    [] s = "print_log_messages" ->
         {"P19", "P34", "P41", "P50", "P56", "P61", "P72", "P79", "P87", "P92",
          "P103", "P109"}
    [] s = "list_datablobsources" -> {"L6"}

\* print(..., hrgls_ErrorMessage(st)); sys.exit(code)   (st = "none": no lookup printed)
Exit(site, st) ==
  /\ pc' = "exited"
  /\ exitCode' = ExitCodeAt(site)
  /\ failSite' = site
  /\ reported' = st

\* ------------------------------------------------------- shared statements
\* x = hrgls.Something(...) or x.Method(...): an SDK call that leaves a status
\* on its handle; the script has not looked at it yet.
SdkCall(from, to, r) ==
  /\ pc = from
  /\ callStatus' = r
  /\ unchecked' = TRUE
  /\ pc' = to

\* status = x.GetStatus(); if (status != hrgls_STATUS_OKAY): print; sys.exit
StatusCheck(site, to) ==
  /\ pc = site
  /\ status' = callStatus
  /\ unchecked' = FALSE
  /\ IF callStatus # OKAY
       THEN /\ badSeen' = TRUE
            /\ Exit(site, callStatus)
       ELSE /\ pc' = to
            /\ UNCHANGED <<badSeen, exitVars>>

\* if (x.Method(...) != hrgls_STATUS_OKAY): print(ErrorMessage(status)); sys.exit
\* The returned value is compared at once; `status` is not assigned, so the
\* lookup is of the value `status` already had.
ReturnCheck(site, to, r) ==
  /\ pc = site
  /\ callStatus' = r
  /\ unchecked' = FALSE
  /\ IF r # OKAY
       THEN /\ badSeen' = TRUE
            /\ Exit(site, status)
       ELSE /\ pc' = to
            /\ UNCHANGED <<badSeen, exitVars>>

StreamingAfter_AlwaysOn(on, r, cur) == IF r = OKAY THEN TRUE ELSE cur

\* SDK streaming state after SetStreamingState(on) / SetLogMessageStreamingState(on)
\* returned r
StreamingAfter(on, r, cur) == IF r = OKAY THEN on ELSE cur

\* SDK handler state after SetStreamCallback / SetLogMessageCallback returned r
HandlerAfter(installed, r, cur) == IF r = OKAY THEN installed ELSE cur

ReleaseData_NoOp(b) == b

\* blob.ReleaseData(): a held blob becomes released; anything else is a
\* release of something already released (or of no blob)
ReleaseData(b) == IF b = "held" THEN "released" ELSE "rereleased"

IsFatalGet_TimeoutFatal(st) == st # OKAY

\* else-branch of the get loops: if (status != hrgls_STATUS_TIMEOUT): exit
IsFatalGet(st) == st # OKAY /\ st # TIMEOUT

TooLow_OffByOne(level) == level < MinWarning - 1

\* message.Level() < hrgls.hrgls_MESSAGE_MINIMUM_WARNING
TooLow(level) == level < MinWarning

WaitLoopCond_Inverted(d) == d

\* while (not done[0])
WaitLoopCond(d) == ~d

\* ------------------------------------------------------ datablobsource.py
\* api = hrgls.API()
D25_OpenAPI ==
  /\ \E r \in Status : SdkCall("D25", "D26", r)
  /\ UNCHANGED <<script, status, exitVars, badSeen, cbVars, sdkVars, count, mainBlob,
                 timeVars, logVars, dbs>>

\* status = api.GetStatus(); exit 1
D26_CheckAPI ==
  /\ StatusCheck("D26", "D32")
  /\ UNCHANGED <<script, callStatus, cbVars, sdkVars, count, mainBlob, timeVars,
                 logVars, dbs>>

\* sp = hrgls.StreamProperties()
D32_StreamProperties ==
  /\ \E r \in Status : SdkCall("D32", "D33", r)
  /\ UNCHANGED <<script, status, exitVars, badSeen, cbVars, sdkVars, count, mainBlob,
                 timeVars, logVars, dbs>>

\* status = sp.GetStatus(); exit 7
D33_CheckStreamProperties ==
  /\ StatusCheck("D33", "D37")
  /\ UNCHANGED <<script, callStatus, cbVars, sdkVars, count, mainBlob, timeVars,
                 logVars, dbs>>

\* stream = hrgls.DataBlobSource(api, sp)
D37_DataBlobSource ==
  /\ \E r \in Status : SdkCall("D37", "D38", r)
  /\ UNCHANGED <<script, status, exitVars, badSeen, cbVars, sdkVars, count, mainBlob,
                 timeVars, logVars, dbs>>

\* status = stream.GetStatus(); exit 9
D38_CheckStream ==
  /\ StatusCheck("D38", "D53")
  /\ UNCHANGED <<script, callStatus, cbVars, sdkVars, count, mainBlob, timeVars,
                 logVars, dbs>>

\* done = [False]; if (stream.SetStreamCallback(HandleBlobCallback, done) != OKAY): exit 11
D53_SetStreamCallback ==
  /\ \E r \in Status :
       /\ ReturnCheck("D53", "D58", r)
       /\ handler' = HandlerAfter(TRUE, r, handler)
  /\ done' = FALSE
  /\ UNCHANGED <<script, status, cbCount, cbpc, cbBlob, cbBlobStatus, streaming,
                 minLevel, count, mainBlob, timeVars, logVars, dbs>>

\* if (stream.SetStreamingState(True) != OKAY): exit 12
D58_StreamingOn ==
  /\ \E r \in Status :
       /\ ReturnCheck("D58", "D63", r)
       /\ streaming' = StreamingAfter(TRUE, r, streaming)
  /\ UNCHANGED <<script, status, cbVars, handler, minLevel, count, mainBlob,
                 timeVars, logVars, dbs>>

\* while (not done[0]):
D63_WaitLoop ==
  /\ pc = "D63"
  /\ pc' = IF WaitLoopCond(done) THEN "D64" ELSE "D67"
  /\ UNCHANGED <<script, status, callStatus, unchecked, exitVars, badSeen, cbVars,
                 sdkVars, count, mainBlob, timeVars, logVars, dbs>>

\* time.sleep(0.1)
D64_Sleep ==
  /\ pc = "D64"
  /\ pc' = "D63"
  /\ UNCHANGED <<script, status, callStatus, unchecked, exitVars, badSeen, cbVars,
                 sdkVars, count, mainBlob, timeVars, logVars, dbs>>

\* if (stream.SetStreamingState(False) != OKAY): exit 13
\* The SDK stops its streaming thread inside this call, so the call returns
\* only when no callback invocation is running.
D67_StreamingOff ==
  /\ cbpc = "idle"
  /\ \E r \in Status :
       /\ ReturnCheck("D67", "D70", r)
       /\ streaming' = StreamingAfter(FALSE, r, streaming)
  /\ UNCHANGED <<script, status, cbVars, handler, minLevel, count, mainBlob,
                 timeVars, logVars, dbs>>

\* if (stream.SetStreamCallback(None, None) != OKAY): exit 14
D70_ResetCallback ==
  /\ \E r \in Status :
       /\ ReturnCheck("D70", "D78", r)
       /\ handler' = HandlerAfter(FALSE, r, handler)
  /\ UNCHANGED <<script, status, cbVars, streaming, minLevel, count, mainBlob,
                 timeVars, logVars, dbs>>

\* if (stream.SetStreamingState(True) != OKAY): exit 15;  count = 0
D78_StreamingOnAgain ==
  /\ \E r \in Status :
       /\ ReturnCheck("D78", "D82", r)
       /\ streaming' = StreamingAfter(TRUE, r, streaming)
       /\ count' = IF r = OKAY THEN 0 ELSE count
  /\ UNCHANGED <<script, status, cbVars, handler, minLevel, mainBlob, timeVars,
                 logVars, dbs>>

\* while (count <= 10):
D82_GetLoop ==
  /\ pc = "D82"
  /\ pc' = IF count <= BlobGetLimit THEN "D83" ELSE "D108"
  /\ UNCHANGED <<script, status, callStatus, unchecked, exitVars, badSeen, cbVars,
                 sdkVars, count, mainBlob, timeVars, logVars, dbs>>

\* blob = stream.GetNextBlob(): a blob is delivered exactly when the status is success
D83_GetNextBlob ==
  /\ \E r \in Status :
       /\ SdkCall("D83", "D84", r)
       /\ mainBlob' = IF r = OKAY THEN "held" ELSE "none"
  /\ UNCHANGED <<script, status, exitVars, badSeen, cbVars, sdkVars, count,
                 timeVars, logVars, dbs>>

\* status = stream.GetStatus(); success: count = count + 1;
\* else: if (status != TIMEOUT): exit 18
D84_CheckGet ==
  /\ pc = "D84"
  /\ status' = callStatus
  /\ unchecked' = FALSE
  /\ IF callStatus = OKAY
       THEN /\ count' = count + 1
            /\ pc' = "D90"
            /\ UNCHANGED <<badSeen, exitVars>>
       ELSE IF IsFatalGet(callStatus)
         THEN /\ badSeen' = TRUE
              /\ Exit("D84", callStatus)
              /\ UNCHANGED count
         ELSE /\ pc' = "D82"
              /\ UNCHANGED <<count, badSeen, exitVars>>
  /\ UNCHANGED <<script, callStatus, cbVars, sdkVars, mainBlob, timeVars, logVars, dbs>>

\* myCArray = ctypes.cast(int(blob.Data()), ...blob.Size()...); prints
D90_ReadData ==
  /\ pc = "D90"
  /\ pc' = "D97"
  /\ UNCHANGED <<script, status, callStatus, unchecked, exitVars, badSeen, cbVars,
                 sdkVars, count, mainBlob, timeVars, logVars, dbs>>

\* blob.ReleaseData()
D97_ReleaseData ==
  /\ \E r \in Status : SdkCall("D97", "D98", r)
  /\ mainBlob' = ReleaseData(mainBlob)
  /\ UNCHANGED <<script, status, exitVars, badSeen, cbVars, sdkVars, count,
                 timeVars, logVars, dbs>>

\* status = blob.GetStatus(); exit 17
D98_CheckRelease ==
  /\ StatusCheck("D98", "D82")
  /\ UNCHANGED <<script, callStatus, cbVars, sdkVars, count, mainBlob, timeVars,
                 logVars, dbs>>

\* if (stream.SetStreamingState(False) != OKAY): exit 19
D108_StreamingOffFinal ==
  /\ \E r \in Status :
       /\ ReturnCheck("D108", "D112", r)
       /\ streaming' = StreamingAfter(FALSE, r, streaming)
  /\ UNCHANGED <<script, status, cbVars, handler, minLevel, count, mainBlob,
                 timeVars, logVars, dbs>>

\* print('Success!') and the normal end of the script
D112_Success ==
  /\ pc = "D112"
  /\ pc' = "Success"
  /\ exitCode' = 0
  /\ UNCHANGED <<script, status, callStatus, unchecked, failSite, reported, badSeen,
                 cbVars, sdkVars, count, mainBlob, timeVars, logVars, dbs>>

\* HandleBlobCallback, invoked by the SDK thread with a fresh blob:
\* HandleBlobCallback.count += 1; if (count >= 10): timeToQuit[0] = True
CB12_BlobCallbackEnter ==
  /\ script = "datablobsource"
  /\ handler /\ streaming
  /\ pc \notin {"exited", "Success"}
  /\ cbpc = "idle"
  /\ cbCount < MaxCallbacks
  /\ cbCount' = cbCount + 1
  /\ done' = IF cbCount + 1 >= BlobQuitCount THEN TRUE ELSE done
  /\ cbBlob' = "held"
  /\ cbpc' = "C15"
  /\ UNCHANGED <<script, pc, status, callStatus, unchecked, exitVars, badSeen,
                 cbBlobStatus, sdkVars, count, mainBlob, timeVars, logVars, dbs>>

\* blob.ReleaseData()
CB15_ReleaseData ==
  /\ cbpc = "C15"
  /\ cbBlob' = ReleaseData(cbBlob)
  /\ \E r \in Status : cbBlobStatus' = r
  /\ cbpc' = "C16"
  /\ UNCHANGED <<script, pc, status, callStatus, unchecked, exitVars, badSeen,
                 done, cbCount, sdkVars, count, mainBlob, timeVars, logVars, dbs>>

\* status = blob.GetStatus(); if (status != OKAY): print; timeToQuit[0] = True
\* and the handler returns
CB16_CheckRelease ==
  /\ cbpc = "C16"
  /\ cbpc' = "idle"
  /\ IF cbBlobStatus # OKAY
       THEN /\ done' = TRUE
            /\ badSeen' = TRUE
       ELSE UNCHANGED <<done, badSeen>>
  /\ UNCHANGED <<script, pc, status, callStatus, unchecked, exitVars, cbCount,
                 cbBlob, cbBlobStatus, sdkVars, count, mainBlob, timeVars, logVars, dbs>>

\* --------------------------------------------------- print_log_messages.py
\* api = hrgls.API()
P18_OpenAPI ==
  /\ \E r \in Status : SdkCall("P18", "P19", r)
  /\ UNCHANGED <<script, status, exitVars, badSeen, cbVars, sdkVars, count, mainBlob,
                 timeVars, logVars, dbs>>

\* status = api.GetStatus(); exit 1
P19_CheckAPI ==
  /\ StatusCheck("P19", "P33")
  /\ UNCHANGED <<script, callStatus, cbVars, sdkVars, count, mainBlob, timeVars,
                 logVars, dbs>>

\* done = [False]; api.SetLogMessageCallback(HandleLogCallback, done)
P33_SetLogMessageCallback ==
  /\ \E r \in Status :
       /\ SdkCall("P33", "P34", r)
       /\ handler' = HandlerAfter(TRUE, r, handler)
  /\ done' = FALSE
  /\ UNCHANGED <<script, status, exitVars, badSeen, cbCount, cbpc, cbBlob,
                 cbBlobStatus, streaming, minLevel, count, mainBlob, timeVars,
                 logVars, dbs>>

\* status = api.GetStatus(); exit 2
P34_CheckCallback ==
  /\ StatusCheck("P34", "P40")
  /\ UNCHANGED <<script, callStatus, cbVars, sdkVars, count, mainBlob, timeVars,
                 logVars, dbs>>

\* api.SetLogMessageStreamingState(True)
P40_StreamingOn ==
  /\ \E r \in Status :
       /\ SdkCall("P40", "P41", r)
       /\ streaming' = StreamingAfter(TRUE, r, streaming)
  /\ UNCHANGED <<script, status, exitVars, badSeen, cbVars, handler, minLevel, count,
                 mainBlob, timeVars, logVars, dbs>>

\* status = api.GetStatus(); exit 3
P41_CheckStreamingOn ==
  /\ StatusCheck("P41", "P47")
  /\ UNCHANGED <<script, callStatus, cbVars, sdkVars, count, mainBlob, timeVars,
                 logVars, dbs>>

\* start = api.GetCurrentSystemTime()
P47_Start ==
  /\ pc = "P47"
  /\ start' = clock
  /\ pc' = "P48"
  /\ UNCHANGED <<script, status, callStatus, unchecked, exitVars, badSeen, cbVars,
                 sdkVars, count, mainBlob, clock, now, end, logVars, dbs>>

\* while HandleLogCallback.count < 5:
P48_WaitLoop ==
  /\ pc = "P48"
  /\ pc' = IF cbCount < LogWanted THEN "P49" ELSE "P55"
  /\ UNCHANGED <<script, status, callStatus, unchecked, exitVars, badSeen, cbVars,
                 sdkVars, count, mainBlob, timeVars, logVars, dbs>>

\* now = api.GetCurrentSystemTime()
P49_Now ==
  /\ pc = "P49"
  /\ now' = clock
  /\ pc' = "P50"
  /\ UNCHANGED <<script, status, callStatus, unchecked, exitVars, badSeen, cbVars,
                 sdkVars, count, mainBlob, clock, start, end, logVars, dbs>>

P50_CheckTimeout_AtLimit ==
  /\ pc = "P50"
  /\ IF now - start >= LogTimeoutSecs
       THEN Exit("P50", "none")
       ELSE /\ pc' = "P48"
            /\ UNCHANGED exitVars
  /\ UNCHANGED <<script, status, callStatus, unchecked, badSeen, cbVars, sdkVars,
                 count, mainBlob, timeVars, logVars, dbs>>

\* if (now.tv_sec - start.tv_sec > 5): print('Timeout ...'); sys.exit(4)
P50_CheckTimeout ==
  /\ pc = "P50"
  /\ IF now - start > LogTimeoutSecs
       THEN Exit("P50", "none")
       ELSE /\ pc' = "P48"
            /\ UNCHANGED exitVars
  /\ UNCHANGED <<script, status, callStatus, unchecked, badSeen, cbVars, sdkVars,
                 count, mainBlob, timeVars, logVars, dbs>>

\* api.SetLogMessageStreamingState(False)
\* The SDK stops delivering inside this call, so the call returns only when
\* no callback invocation is running.
P55_StreamingOff ==
  /\ cbpc = "idle"
  /\ \E r \in Status :
       /\ SdkCall("P55", "P56", r)
       /\ streaming' = StreamingAfter(FALSE, r, streaming)
  /\ UNCHANGED <<script, status, exitVars, badSeen, cbVars, handler, minLevel, count,
                 mainBlob, timeVars, logVars, dbs>>

\* status = api.GetStatus(); exit 5
P56_CheckStreamingOff ==
  /\ StatusCheck("P56", "P60")
  /\ UNCHANGED <<script, callStatus, cbVars, sdkVars, count, mainBlob, timeVars,
                 logVars, dbs>>

\* api.SetLogMessageCallback(None, None)
P60_ResetCallback ==
  /\ \E r \in Status :
       /\ SdkCall("P60", "P61", r)
       /\ handler' = HandlerAfter(FALSE, r, handler)
  /\ UNCHANGED <<script, status, exitVars, badSeen, cbVars, streaming, minLevel,
                 count, mainBlob, timeVars, logVars, dbs>>

\* status = api.GetStatus(); exit 6
P61_CheckReset ==
  /\ StatusCheck("P61", "P71")
  /\ UNCHANGED <<script, callStatus, cbVars, sdkVars, count, mainBlob, timeVars,
                 logVars, dbs>>

\* api.SetLogMessageMinimumLevel(hrgls.hrgls_MESSAGE_MINIMUM_WARNING)
P71_SetMinimumLevel ==
  /\ \E r \in Status :
       /\ SdkCall("P71", "P72", r)
       /\ minLevel' = IF r = OKAY THEN MinWarning ELSE minLevel
  /\ UNCHANGED <<script, status, exitVars, badSeen, cbVars, handler, streaming, count,
                 mainBlob, timeVars, logVars, dbs>>

\* status = api.GetStatus(); exit 100
P72_CheckMinimumLevel ==
  /\ StatusCheck("P72", "P78")
  /\ UNCHANGED <<script, callStatus, cbVars, sdkVars, count, mainBlob, timeVars,
                 logVars, dbs>>

\* api.SetLogMessageStreamingState(True)
P78_StreamingOnAgain ==
  /\ \E r \in Status :
       /\ SdkCall("P78", "P79", r)
       /\ streaming' = StreamingAfter(TRUE, r, streaming)
  /\ UNCHANGED <<script, status, exitVars, badSeen, cbVars, handler, minLevel, count,
                 mainBlob, timeVars, logVars, dbs>>

\* status = api.GetStatus(); exit 7;  count = 0
P79_CheckStreamingOnAgain ==
  /\ StatusCheck("P79", "P84")
  /\ count' = IF callStatus = OKAY THEN 0 ELSE count
  /\ UNCHANGED <<script, callStatus, cbVars, sdkVars, mainBlob, timeVars, logVars, dbs>>

\* start = api.GetCurrentSystemTime()
P84_Start ==
  /\ pc = "P84"
  /\ start' = clock
  /\ pc' = "P85"
  /\ UNCHANGED <<script, status, callStatus, unchecked, exitVars, badSeen, cbVars,
                 sdkVars, count, mainBlob, clock, now, end, logVars, dbs>>

\* while (count < 5):
P85_GetLoop ==
  /\ pc = "P85"
  /\ pc' = IF count < LogWanted THEN "P86" ELSE "P108"
  /\ UNCHANGED <<script, status, callStatus, unchecked, exitVars, badSeen, cbVars,
                 sdkVars, count, mainBlob, timeVars, logVars, dbs>>

\* the lists GetPendingLogMessages can return, as lists of message levels
Batches == UNION {[1..n -> Levels] : n \in 0..MaxBatch}

\* messages = api.GetPendingLogMessages()
P86_GetPendingLogMessages ==
  /\ \E r \in Status :
       /\ SdkCall("P86", "P87", r)
       /\ \E b \in Batches :
            /\ r # OKAY => b = <<>>
            /\ messages' = b
            /\ lowReturned' = (lowReturned \/ \E i \in 1..Len(b) : b[i] < MinWarning)
  /\ UNCHANGED <<script, status, exitVars, badSeen, cbVars, sdkVars, count, mainBlob,
                 timeVars, printedGet, dbs>>

\* status = api.GetStatus(); success: count = count + len(messages);
\* else: if (status != TIMEOUT): exit 8
P87_CheckGet ==
  /\ pc = "P87"
  /\ status' = callStatus
  /\ unchecked' = FALSE
  /\ IF callStatus = OKAY
       THEN /\ count' = count + Len(messages)
            /\ pc' = "P92"
            /\ UNCHANGED <<badSeen, exitVars>>
       ELSE IF IsFatalGet(callStatus)
         THEN /\ badSeen' = TRUE
              /\ Exit("P87", callStatus)
              /\ UNCHANGED count
         ELSE /\ pc' = "P102"
              /\ UNCHANGED <<count, badSeen, exitVars>>
  /\ UNCHANGED <<script, callStatus, cbVars, sdkVars, mainBlob, timeVars, logVars, dbs>>

\* for message in messages: if message.Level() < WARNING: exit 101;
\*                          print('Get-based message ...')
P92_ForMessage ==
  /\ pc = "P92"
  /\ IF messages = <<>>
       THEN /\ pc' = "P102"
            /\ UNCHANGED <<exitVars, messages, printedGet>>
       ELSE IF TooLow(Head(messages))
         THEN /\ Exit("P92", "none")
              /\ UNCHANGED <<messages, printedGet>>
         ELSE /\ printedGet' = Head(messages)
              /\ messages' = Tail(messages)
              /\ UNCHANGED <<pc, exitVars>>
  /\ UNCHANGED <<script, status, callStatus, unchecked, badSeen, cbVars, sdkVars,
                 count, mainBlob, timeVars, lowReturned, dbs>>

\* end = api.GetCurrentSystemTime()
P102_End ==
  /\ pc = "P102"
  /\ end' = clock
  /\ pc' = "P103"
  /\ UNCHANGED <<script, status, callStatus, unchecked, exitVars, badSeen, cbVars,
                 sdkVars, count, mainBlob, clock, start, now, logVars, dbs>>

\* if (end.tv_sec - start.tv_sec > 5): print('Timeout ...'); sys.exit(9)
P103_CheckTimeout ==
  /\ pc = "P103"
  /\ IF end - start > LogTimeoutSecs
       THEN Exit("P103", "none")
       ELSE /\ pc' = "P85"
            /\ UNCHANGED exitVars
  /\ UNCHANGED <<script, status, callStatus, unchecked, badSeen, cbVars, sdkVars,
                 count, mainBlob, timeVars, logVars, dbs>>

\* "# Stop streaming":  api.SetLogMessageStreamingState(True)
P108_StreamingFinal ==
  /\ \E r \in Status :
       /\ SdkCall("P108", "P109", r)
       /\ streaming' = StreamingAfter(TRUE, r, streaming)
  /\ UNCHANGED <<script, status, exitVars, badSeen, cbVars, handler, minLevel, count,
                 mainBlob, timeVars, logVars, dbs>>

\* status = api.GetStatus(); exit 10
P109_CheckStreamingFinal ==
  /\ StatusCheck("P109", "P114")
  /\ UNCHANGED <<script, callStatus, cbVars, sdkVars, count, mainBlob, timeVars,
                 logVars, dbs>>

\* print('Success!') and the normal end of the script
P114_Success ==
  /\ pc = "P114"
  /\ pc' = "Success"
  /\ exitCode' = 0
  /\ UNCHANGED <<script, status, callStatus, unchecked, failSite, reported, badSeen,
                 cbVars, sdkVars, count, mainBlob, timeVars, logVars, dbs>>

\* HandleLogCallback, invoked by the SDK thread: HandleLogCallback.count += 1
CB11_LogCallbackEnter ==
  /\ script = "print_log_messages"
  /\ handler /\ streaming
  /\ pc \notin {"exited", "Success"}
  /\ cbpc = "idle"
  /\ cbCount < MaxLogCallbacks
  /\ cbCount' = cbCount + 1
  /\ cbpc' = "C12"
  /\ UNCHANGED <<script, pc, status, callStatus, unchecked, exitVars, badSeen, done,
                 cbBlob, cbBlobStatus, sdkVars, count, mainBlob, timeVars, logVars, dbs>>

\* print('Callback message with level', ...) and the handler returns
CB12_LogCallbackPrint ==
  /\ cbpc = "C12"
  /\ cbpc' = "idle"
  /\ UNCHANGED <<script, pc, status, callStatus, unchecked, exitVars, badSeen, done,
                 cbCount, cbBlob, cbBlobStatus, sdkVars, count, mainBlob, timeVars,
                 logVars, dbs>>

\* positions inside the two timed loops of print_log_messages.py
TimedLoopPcs == {"P48", "P49", "P50", "P85", "P86", "P87", "P92", "P102", "P103"}

\* The system clock advances by a second.  The script reads the clock only
\* inside its timed loops and only compares the difference to `start` with
\* LogTimeoutSecs, so seconds passing elsewhere, or after the difference
\* already exceeds LogTimeoutSecs, change nothing the script can see.
Tick ==
  /\ script = "print_log_messages"
  /\ pc \in TimedLoopPcs
  /\ clock - start <= LogTimeoutSecs
  /\ clock' = clock + 1
  /\ UNCHANGED <<script, pc, status, callStatus, unchecked, exitVars, badSeen, cbVars,
                 sdkVars, count, mainBlob, start, now, end, logVars, dbs>>

\* ------------------------------------------------- list_datablobsources.py
\* api = hrgls.API()
L5_OpenAPI ==
  /\ \E r \in Status : SdkCall("L5", "L6", r)
  /\ UNCHANGED <<script, status, exitVars, badSeen, cbVars, sdkVars, count, mainBlob,
                 timeVars, logVars, dbs>>

\* s = api.GetStatus(); exit 1
L6_CheckAPI ==
  /\ StatusCheck("L6", "L12")
  /\ UNCHANGED <<script, callStatus, cbVars, sdkVars, count, mainBlob, timeVars,
                 logVars, dbs>>

\* dbs = api.GetAvailableDataBlobSources()
L12_GetAvailableDataBlobSources ==
  /\ \E r \in Status :
       /\ SdkCall("L12", "L13", r)
       /\ \E n \in 0..MaxSources :
            /\ r # OKAY => n = 0
            /\ dbs' = n
  /\ UNCHANGED <<script, status, exitVars, badSeen, cbVars, sdkVars, count, mainBlob,
                 timeVars, logVars>>

\* for db in dbs: print('Renderer ', db.Name());  then the script ends
L13_ForSource ==
  /\ pc = "L13"
  /\ IF dbs = 0
       THEN /\ pc' = "Ended"
            /\ exitCode' = 0
            /\ UNCHANGED dbs
       ELSE /\ dbs' = dbs - 1
            /\ UNCHANGED <<pc, exitCode>>
  /\ UNCHANGED <<script, status, callStatus, unchecked, failSite, reported, badSeen,
                 cbVars, sdkVars, count, mainBlob, timeVars, logVars>>

\* ------------------------------------------------------------ the system
\* the steps of the script's main thread
MainThread ==
  \/ D25_OpenAPI \/ D26_CheckAPI \/ D32_StreamProperties \/ D33_CheckStreamProperties
  \/ D37_DataBlobSource \/ D38_CheckStream \/ D53_SetStreamCallback \/ D58_StreamingOn
  \/ D63_WaitLoop \/ D64_Sleep \/ D67_StreamingOff \/ D70_ResetCallback
  \/ D78_StreamingOnAgain \/ D82_GetLoop \/ D83_GetNextBlob \/ D84_CheckGet
  \/ D90_ReadData \/ D97_ReleaseData \/ D98_CheckRelease \/ D108_StreamingOffFinal
  \/ D112_Success
  \/ P18_OpenAPI \/ P19_CheckAPI \/ P33_SetLogMessageCallback \/ P34_CheckCallback
  \/ P40_StreamingOn \/ P41_CheckStreamingOn \/ P47_Start \/ P48_WaitLoop \/ P49_Now
  \/ P50_CheckTimeout \/ P55_StreamingOff \/ P56_CheckStreamingOff \/ P60_ResetCallback
  \/ P61_CheckReset \/ P71_SetMinimumLevel \/ P72_CheckMinimumLevel
  \/ P78_StreamingOnAgain \/ P79_CheckStreamingOnAgain \/ P84_Start \/ P85_GetLoop
  \/ P86_GetPendingLogMessages \/ P87_CheckGet \/ P92_ForMessage \/ P102_End
  \/ P103_CheckTimeout \/ P108_StreamingFinal \/ P109_CheckStreamingFinal
  \/ P114_Success
  \/ L5_OpenAPI \/ L6_CheckAPI \/ L12_GetAvailableDataBlobSources \/ L13_ForSource

\* the SDK thread starts a callback invocation
CallbackInvoke == CB12_BlobCallbackEnter \/ CB11_LogCallbackEnter

\* the rest of a started callback invocation
CallbackBody == CB15_ReleaseData \/ CB16_CheckRelease \/ CB12_LogCallbackPrint

Next == MainThread \/ CallbackInvoke \/ CallbackBody \/ Tick

Spec == Init /\ [][Next]_vars

\* The interpreter keeps running the main thread and a started handler, and
\* the clock advances; nothing obliges the SDK to invoke the callback.
FairSpec == Spec /\ WF_vars(MainThread) /\ WF_vars(CallbackBody) /\ WF_vars(Tick)

\* ------------------------------------------------------------ properties
Terminated == pc \in {"exited", "Success", "Ended"}

\* positions at which the script compares the status of the call just made
CheckPcs ==
  {"D26", "D33", "D38", "D84", "D98",
   "P19", "P34", "P41", "P56", "P61", "P72", "P79", "P87", "P109", "L6"}

\* C1: in datablobsource.py and print_log_messages.py 'Success!' is printed
\* only on runs in which no observed status was a failure (neither success
\* nor, in a get loop, timeout), the status read after blob.ReleaseData() in
\* HandleBlobCallback included.
C1_SuccessOnlyWithoutBadStatus == pc = "Success" => ~badSeen

\* the exit codes the failure sites of each script are said to use
ClaimedCodes(s) ==
  CASE s = "datablobsource" -> {1, 7, 9, 11, 12, 13, 14, 15, 17, 18, 19}
    [] s = "print_log_messages" -> (1..10) \cup {100, 101}
    [] s = "list_datablobsources" -> {1}

\* C2: the exit code of a failed run is one of the listed codes and no other
\* failure site of the same script uses it, so it identifies the failing site.
C2_ExitCodeIdentifiesSite ==
  pc = "exited" =>
    /\ failSite \in FailSites(script)
    /\ exitCode \in ClaimedCodes(script)
    /\ \A site \in FailSites(script) : ExitCodeAt(site) = exitCode => site = failSite

C2_Witness ==
  /\ script = "datablobsource" /\ pc = "exited" /\ exitCode = 13 /\ failSite = "D67"

\* C3: every status-changing SDK call is followed by a check of its status
\* before the script makes the next SDK call or uses the result: the status of
\* a call is unchecked only while the script stands at the check of that call.
C3_EveryCallChecked == unchecked => pc \in CheckPcs

\* C4: in the get loops a timeout status leaves the received-item counter
\* alone and does not end the process, the loop goes on to poll again; any
\* status other than success or timeout exits with 18 (GetNextBlob) or 8
\* (GetPendingLogMessages); an exit of print_log_messages.py's loop after a
\* timeout status is the clock's exit 9, taken only on the elapsed time.
C4_TimeoutPollsAgain ==
  [][ /\ (pc = "D84" /\ pc' # pc /\ callStatus = TIMEOUT)
           => (pc' = "D82" /\ count' = count /\ exitCode' = -1)
      /\ (pc = "D82" /\ pc' # pc /\ status = TIMEOUT) => pc' = "D83"
      /\ (pc = "D84" /\ pc' # pc /\ callStatus \notin {OKAY, TIMEOUT})
           => (pc' = "exited" /\ exitCode' = 18)
      /\ (pc = "P87" /\ pc' # pc /\ callStatus = TIMEOUT)
           => (pc' = "P102" /\ count' = count /\ exitCode' = -1)
      /\ (pc = "P87" /\ pc' # pc /\ callStatus \notin {OKAY, TIMEOUT})
           => (pc' = "exited" /\ exitCode' = 8)
      /\ (pc \in {"P102", "P103"} /\ pc' # pc /\ status = TIMEOUT)
           => /\ count' = count
              /\ \/ pc' = "P103" /\ exitCode' = -1
                 \/ pc' = "P85" /\ exitCode' = -1
                 \/ pc' = "exited" /\ exitCode' = 9 /\ end - start > LogTimeoutSecs
    ]_vars

C4_Witness == pc = "D83" /\ status = TIMEOUT /\ count > 0

\* C5: each script eventually terminates, also when the SDK never invokes the
\* callback and every get call returns the timeout status.
C5_EventuallyTerminates == <>Terminated

\* C6: in print_log_messages.py every message printed as a get-based message
\* was retrieved under the warning filter and has level >= warning; once a
\* message below warning was returned the script is still working through that
\* list or has exited with 101, so it never reaches 'Success!'.
C6_NoLowLevelMessage ==
  /\ printedGet # 0 => (minLevel = MinWarning /\ printedGet >= MinWarning)
  /\ lowReturned => \/ pc \in {"P87", "P92"}
                    \/ pc = "exited" /\ exitCode = 101

C6_Witness == pc = "exited" /\ exitCode = 101 /\ lowReturned /\ printedGet # 0

C8_StreamingOffAtSuccess == pc = "Success" => ~streaming

\* C9: the handler is installed before streaming is first turned on, it is
\* removed only while streaming is off, streaming is turned on without a
\* handler only by the second (get phase) call, and GetNextBlob /
\* GetPendingLogMessages are issued only with no handler installed and
\* streaming on.
C9_HandlerStreamingOrder ==
  [][ /\ (pc \in {"D58", "P40"} /\ streaming') => (handler /\ ~streaming)
      /\ (~streaming /\ streaming') => pc \in {"D58", "P40", "D78", "P78"}
      /\ (~streaming /\ streaming' /\ ~handler) => pc \in {"D78", "P78"}
      /\ (handler /\ ~handler') => (~streaming /\ pc \in {"D70", "P60"})
      /\ (pc \in {"D83", "P86"} /\ pc' # pc) => (~handler /\ streaming)
    ]_vars

C9_Witness == pc = "D84" /\ ~handler /\ streaming /\ cbCount >= BlobQuitCount

\* C10: done[0] changes only in HandleBlobCallback and only from False to
\* True, when the count has reached 10 or the release left a failure status;
\* the main thread leaves its wait loop and calls SetStreamingState(False)
\* only with done[0] True; a callback arriving after that still increments
\* the count and releases its blob.
C10_DoneFlag ==
  [][ script = "datablobsource" =>
        /\ done' # done =>
             /\ ~done /\ done' /\ pc' = pc
             /\ \/ cbpc = "idle" /\ cbpc' = "C15" /\ cbCount' >= 10
                \/ cbpc = "C16" /\ cbpc' = "idle" /\ cbBlobStatus # OKAY
        /\ (pc = "D63" /\ pc' = "D67") => done
        /\ (pc = "D67" /\ pc' # pc) => done
        /\ (done /\ cbpc = "idle" /\ cbpc' # cbpc)
             => (cbCount' = cbCount + 1 /\ cbBlob' = "held" /\ cbpc' = "C15")
        /\ (done /\ cbpc = "C15" /\ cbpc' # cbpc) => cbBlob' = "released"
    ]_vars

C10_Witness ==
  /\ script = "datablobsource" /\ pc \in {"D63", "D64"} /\ done
  /\ cbCount > BlobQuitCount /\ cbpc = "idle" /\ cbBlob = "released"

\* C11: when a call fails, the message the script reports is the lookup of
\* the status that failing call returned, at the SetStreamCallback and
\* SetStreamingState sites of datablobsource.py as at every other site.
C11_ReportedIsReturnedStatus ==
  (pc = "exited" /\ reported # "none") => reported = callStatus

\* C12 as stated: the callback phase of print_log_messages.py exits with code
\* 4 only when fewer than 5 callback messages have been delivered at the
\* moment of exit.
C12_Exit4OnlyBelowFive ==
  (script = "print_log_messages" /\ pc = "exited" /\ exitCode = 4) => cbCount < 5

\* C12 (amended): the script goes on to stop streaming only when
\* HandleLogCallback.count >= 5 at the loop test; it exits with code 4 only
\* from the timeout test, when the whole-second difference now - start
\* exceeds 5, and that test is reached only from a loop test that found
\* fewer than 5 messages; callbacks arriving after the loop test may have
\* raised the count by the moment of exit.
C12_CallbackPhaseExit ==
  [][ script = "print_log_messages" =>
        /\ (pc = "P48" /\ pc' = "P55") => cbCount >= 5
        /\ (pc # "P55" /\ pc' = "P55") => pc = "P48"
        /\ (pc = "P48" /\ pc' = "P49") => cbCount < 5
        /\ (pc # "P49" /\ pc' = "P49") => pc = "P48"
        /\ (pc # "P50" /\ pc' = "P50") => pc = "P49"
        /\ (exitCode # 4 /\ exitCode' = 4)
             => (pc = "P50" /\ pc' = "exited" /\ now - start > 5 /\ now <= clock)
    ]_vars

C12_Witness ==
  /\ script = "print_log_messages" /\ pc = "exited" /\ exitCode = 4
  /\ cbCount >= 5 /\ now - start > 5

\* C13: in the get loop of print_log_messages.py the timeout exit (code 9)
\* is taken only when fewer than 5 messages have been received.
C13_Exit9OnlyBelowFive ==
  (script = "print_log_messages" /\ pc = "exited" /\ exitCode = 9) => count < 5
====
